---- MODULE Spec2Model ----
(***************************************************************************)
(* Macro playback scheduler of MacroPlayerGUI (src/Main.py).               *)
(*                                                                         *)
(* All scheduler state lives on the GUI object and is touched only from    *)
(* the Qt main thread.  Global hotkeys are posted to that thread as queued *)
(* method calls; UI buttons, the step timer and the posted calls are       *)
(* delivered by the Qt event loop.  A handler runs to completion unless it *)
(* reports through MacroErrorNotifier: show_error opens a modal            *)
(* QMessageBox whose nested event loop keeps delivering timer fires and    *)
(* posted hotkey calls while the reporting handler is suspended.  The      *)
(* hide branch of toggle_visibility pumps the event loop as well, with     *)
(* QApplication.processEvents(), before it returns.  The suspended         *)
(* handlers form the stack `frames`; every state of the model is a point   *)
(* at which the (outer or nested) event loop picks its next event.         *)
(* A posted hotkey call changes nothing until it is delivered, so the      *)
(* action Hotkey is the delivery of the call.                              *)
(***************************************************************************)
EXTENDS Integers, Sequences, FiniteSets, TLC

VARIABLES
    macro_actions,   \* self.macro_actions: the loaded action list
    macro_index,     \* self.macro_index: 0-based cursor
    macro_running,   \* self.macro_running
    macro_paused,    \* self.macro_paused
    macro_loop,      \* self.macro_loop: toggle value copied by play_macro
    held_keys,       \* self.held_keys
    timer_active,    \* self.macro_timer.isActive()
    timer_interval,  \* self.macro_timer.interval(), in ms
    loop_checked,    \* self.loop_toggle.isChecked()
    visible,         \* self.isVisible()
    process,         \* "up" while app.exec_() runs, then "closed" or "aborted"
    frames,          \* handlers suspended inside MacroErrorNotifier.show_error
                     \* or inside processEvents()
    inj,             \* keyboard.* calls made by the handler that ran last
    last,            \* history: the handler that ran last, [op, arg, res, rep]:
                     \* arg the decoded file play_macro read, res the branch
                     \* taken, rep a pause_macro right after a pause_macro or
                     \* a stop_macro right after the play_macro that started
                     \* the session
    stopped,         \* history: stop_macro was called for a stop request and
                     \* play_macro has started no session since
    run,             \* history: the list play_macro started and the timer
                     \* fires since, kept while nothing but the timer ran
    marshal          \* the hotkey calls posted with QueuedConnection and not
                     \* yet delivered (queue), with history: the control
                     \* requests made so far (issued) and the number of the
                     \* request that was applied last (applied)

vars == <<macro_actions, macro_index, macro_running, macro_paused, macro_loop,
          held_keys, timer_active, timer_interval, loop_checked, visible,
          process, frames, inj, last, stopped, run, marshal>>

(***************************************************************************)
(* Bounds of the model.                                                    *)
(***************************************************************************)
MaxDepth == 2     \* warning dialogs open at once
MaxRequests == 3  \* control requests made in a run of SpecQ

(***************************************************************************)
(* Decoded macro files.                                                    *)
(***************************************************************************)
DefaultDelayMs == 100

Num(ms) == [t |-> "num", ms |-> ms]
NoDelay == [t |-> "none", ms |-> 0]
BadDelay == [t |-> "bad", ms |-> 0]
\* A delay that float() accepts and int() refuses: NaN, Infinity, 1e999, "nan".
NanDelay == [t |-> "nan", ms |-> 0]
\* What float(...) * 1000 is for such a delay: no number of milliseconds.
NotFinite == -1

Absent == "<absent>"

Act(kind, key, delay) ==
    [dict |-> TRUE, info |-> FALSE, action |-> kind, key |-> key, delay |-> delay]
\* An annotation that also carries the fields of a key step:
\* {"info": "...", "action": "press", "key": "a", "delay": 0.05}.
Info ==
    [dict |-> TRUE, info |-> TRUE, action |-> "press", key |-> "a",
     delay |-> Num(50)]
\* A list element that is not a JSON object, e.g. the number 5.
NotADict ==
    [dict |-> FALSE, info |-> FALSE, action |-> Absent, key |-> Absent,
     delay |-> NoDelay]

MacroA == <<Act("press", "a", Num(50)), Act("release", "a", Num(50))>>
MacroB == <<Act("send", "b", Num(10))>>
MacroC ==
    <<Act("Press", "A", Num(10)), Act("press", " ", Num(10)),
      Act("press", "b", NoDelay)>>
MacroD ==
    <<Info, Act("tap", "b", BadDelay), Act(Absent, "a", NoDelay), NotADict>>
MacroE == <<Act("press", "a", Num(10)), Act("press", Absent, Num(10))>>

\* A macro whose second delay is not finite; it is played in SpecDelay only.
MacroF == <<Act("send", "b", Num(10)), Act("send", "b", NanDelay)>>

File(items) == [t |-> "list", items |-> items]
NotAList == [t |-> "notalist", items |-> <<>>]
LoadFailure == [t |-> "ioerror", items |-> <<>>]
NoSelection == [t |-> "nosel", items |-> <<>>]

Catalog ==
    {File(MacroA), File(MacroB), File(MacroC), File(MacroD),
     File(MacroE),
     File(<<>>), NotAList, LoadFailure}
Selections == Catalog \cup {NoSelection}

(***************************************************************************)
(* str(x).strip().lower() on the key and action names that occur.          *)
(***************************************************************************)
Strip(s) == IF s = " " THEN "" ELSE s
Lower(s) ==
    CASE s = "A" -> "a"
      [] s = "B" -> "b"
      [] s = "Press" -> "press"
      [] OTHER -> s

ActionOf(a) == IF a.action = Absent THEN "send" ELSE Lower(a.action)
KeyOf(a) == IF a.key = Absent THEN "" ELSE Lower(Strip(a.key))
\* float(action.get("delay", 0.1)) * 1000 inside try/except: a delay that does
\* not parse and an element without .get both give 100 ms.
DelayMs(a) ==
    IF ~a.dict THEN DefaultDelayMs
    ELSE CASE a.delay.t = "num" -> a.delay.ms
           [] a.delay.t = "nan" -> NotFinite
           [] OTHER -> DefaultDelayMs

(***************************************************************************)
(* The scheduler state a handler works on, and what it hands back.         *)
(***************************************************************************)
Cur ==
    [macro_actions |-> macro_actions, macro_index |-> macro_index,
     macro_running |-> macro_running, macro_paused |-> macro_paused,
     macro_loop |-> macro_loop, held_keys |-> held_keys,
     timer_active |-> timer_active, timer_interval |-> timer_interval,
     loop_checked |-> loop_checked, visible |-> visible,
     process |-> process, frames |-> frames, marshal |-> marshal,
     inj |-> <<>>, res |-> "done"]

sched == <<macro_actions, macro_index, macro_running, macro_paused>>

Call(op, key, ok, emerg) == [op |-> op, key |-> key, ok |-> ok, emerg |-> emerg]

Frame(kind, step, delay) == [kind |-> kind, step |-> step, delay |-> delay]

\* The outcome a handler reports, unless an exception has cut it short.
Returned(s, res) == [s EXCEPT !.res = IF @ = "raised" THEN @ ELSE res]

\* MacroErrorNotifier.show_error: a modal QMessageBox; the emitting handler is
\* suspended until the box is closed.
show_error(s, kind, step, delay) ==
    [s EXCEPT !.frames = Append(@, Frame(kind, step, delay))]

\* QTimer.stop().  The program never reads the interval of a stopped timer,
\* so the model forgets it.
timer_stop(s) == [s EXCEPT !.timer_active = FALSE, !.timer_interval = 0]

\* QTimer.start(msec)
timer_start(s, msec) == [s EXCEPT !.timer_active = TRUE, !.timer_interval = msec]

RECURSIVE ReleaseEach(_, _, _)
ReleaseEach(todo, fails, log) ==
    IF todo = {} THEN log
    ELSE LET key == CHOOSE k \in todo : TRUE
         IN  ReleaseEach(todo \ {key}, fails,
                         Append(log, Call("release", key, key \notin fails, TRUE)))

RECURSIVE ReleaseUntilFailure(_, _, _)
ReleaseUntilFailure(todo, fails, log) ==
    IF todo = {} THEN log
    ELSE LET key == CHOOSE k \in todo : TRUE
             log1 == Append(log, Call("release", key, key \notin fails, TRUE))
         IN  IF key \in fails THEN log1
             ELSE ReleaseUntilFailure(todo \ {key}, fails, log1)

\* Variant: one try block around the whole loop and the clear().
release_all_keys_one_try(s, fails) ==
    [s EXCEPT !.inj = ReleaseUntilFailure(s.held_keys, fails, @),
              !.held_keys = IF s.held_keys \cap fails = {} THEN {} ELSE @]

\* release_all_keys: keyboard.release on every held key, each failure swallowed,
\* then held_keys.clear().  `fails` are the keys whose release raises.
release_all_keys(s, fails) ==
    [s EXCEPT !.inj = ReleaseEach(s.held_keys, fails, @), !.held_keys = {}]

\* Variant: stop_macro without macro_timer.stop().
stop_macro_keeps_timer(s, fails) ==
    release_all_keys(
        [s EXCEPT !.macro_running = FALSE, !.macro_paused = FALSE,
                  !.macro_index = 0, !.macro_actions = <<>>,
                  !.res = IF s.macro_running THEN "stopped" ELSE "idle"],
        fails)

stop_macro(s, fails) ==
    release_all_keys(
        [timer_stop([s EXCEPT !.macro_running = FALSE, !.macro_paused = FALSE])
            EXCEPT !.macro_index = 0, !.macro_actions = <<>>,
                   !.res = IF s.macro_running THEN "stopped" ELSE "idle"],
        fails)

\* Variant: pause stops the timer only.
pause_macro_keeps_keys(s, fails) ==
    IF s.macro_running
    THEN [timer_stop([s EXCEPT !.macro_paused = TRUE])
             EXCEPT !.res = IF s.macro_paused THEN "again" ELSE "paused"]
    ELSE [s EXCEPT !.res = "idle"]

\* Variant: pause on a paused session resumes it.
pause_macro_toggle(s, fails) ==
    IF s.macro_running /\ s.macro_paused
    THEN [timer_start([s EXCEPT !.macro_paused = FALSE], DefaultDelayMs)
             EXCEPT !.res = "again"]
    ELSE IF s.macro_running
    THEN release_all_keys(
             [timer_stop([s EXCEPT !.macro_paused = TRUE]) EXCEPT !.res = "paused"],
             fails)
    ELSE [s EXCEPT !.res = "idle"]

pause_macro(s, fails) ==
    IF s.macro_running
    THEN release_all_keys(
             [timer_stop([s EXCEPT !.macro_paused = TRUE])
                 EXCEPT !.res = IF s.macro_paused THEN "again" ELSE "paused"],
             fails)
    ELSE [s EXCEPT !.res = "idle"]

\* Variant: the timer is always started with the fallback delay.
start_macro_timer_fallback(s) ==
    IF s.macro_actions # <<>> /\ s.macro_running /\ ~s.macro_paused
    THEN timer_start(s, DefaultDelayMs)
    ELSE s

\* start_macro_timer: the delay lookup sits in a try block, so an index past
\* the end of the list falls back to 100 ms as well; int(delay) is outside the
\* try block and raises for a delay that is not finite.
start_macro_timer(s) ==
    IF s.macro_actions # <<>> /\ s.macro_running /\ ~s.macro_paused
    THEN LET delay == IF s.macro_index < Len(s.macro_actions)
                      THEN DelayMs(s.macro_actions[s.macro_index + 1])
                      ELSE DefaultDelayMs
         IN  IF delay = NotFinite
             THEN [s EXCEPT !.res = "raised"]
             ELSE timer_start(s, delay)
    ELSE s

\* Lines 565-591 of play_macro: load the selected file and start a session.
LoadAndStart(s, sel, fails) ==
    LET s1 == [stop_macro(s, fails) EXCEPT !.macro_loop = s.loop_checked]
    IN  IF sel.t # "list" \/ sel.items = <<>>
        THEN [show_error(s1, "load_error", 0, 0) EXCEPT !.res = "reject"]
        ELSE Returned(start_macro_timer(
                  [s1 EXCEPT !.macro_actions = sel.items,
                             !.macro_index = 0,
                             !.macro_running = TRUE,
                             !.macro_paused = FALSE]), "start")

\* Variant: no early return for a session that is already playing.
play_macro_restarts(s, sel, fails) ==
    IF s.macro_running /\ s.macro_paused
    THEN Returned(start_macro_timer([s EXCEPT !.macro_paused = FALSE]), "resume")
    ELSE IF sel.t = "nosel" THEN [s EXCEPT !.res = "nosel"]
    ELSE LoadAndStart(s, sel, fails)

\* Variant: no return after the reports at lines 578-584.
play_macro_no_return(s, sel, fails) ==
    IF s.macro_running /\ s.macro_paused
    THEN Returned(start_macro_timer([s EXCEPT !.macro_paused = FALSE]), "resume")
    ELSE IF s.macro_running THEN [s EXCEPT !.res = "noop"]
    ELSE IF sel.t = "nosel" THEN [s EXCEPT !.res = "nosel"]
    ELSE LET s1 == LoadAndStart(s, sel, fails)
         IN  IF s1.res = "reject"
             THEN start_macro_timer(
                      [s1 EXCEPT !.macro_actions = sel.items, !.macro_index = 0,
                                 !.macro_running = TRUE, !.macro_paused = FALSE])
             ELSE s1

\* Variant: a paused session is replaced when a macro is selected.
play_macro_loads_when_paused(s, sel, fails) ==
    IF s.macro_running /\ s.macro_paused /\ sel.t = "nosel"
    THEN Returned(start_macro_timer([s EXCEPT !.macro_paused = FALSE]), "resume")
    ELSE IF s.macro_running /\ ~s.macro_paused THEN [s EXCEPT !.res = "noop"]
    ELSE IF sel.t = "nosel" THEN [s EXCEPT !.res = "nosel"]
    ELSE LoadAndStart(s, sel, fails)

\* play_macro; `sel` is what the selected tree item decodes to when the
\* handler runs.
play_macro(s, sel, fails) ==
    IF s.macro_running /\ s.macro_paused
    THEN Returned(start_macro_timer([s EXCEPT !.macro_paused = FALSE]), "resume")
    ELSE IF s.macro_running THEN [s EXCEPT !.res = "noop"]
    ELSE IF sel.t = "nosel" THEN [s EXCEPT !.res = "nosel"]
    ELSE LoadAndStart(s, sel, fails)

\* QApplication.processEvents(): the calling handler is suspended while the
\* pending timer fires and posted calls are delivered.
processEvents(s, kind) == [s EXCEPT !.frames = Append(@, Frame(kind, 0, 0))]

\* Variant: hiding does not release the held keys.
toggle_visibility_keeps_keys(s, fails) ==
    IF s.visible
    THEN [processEvents(s, "hide_events")
             EXCEPT !.visible = FALSE, !.res = "hidden"]
    ELSE [s EXCEPT !.visible = TRUE, !.res = "shown"]

\* Variant: hiding the window pauses the session.
toggle_visibility_pauses(s, fails) ==
    IF s.visible
    THEN [processEvents(release_all_keys(pause_macro(s, fails), {}), "hide_events")
             EXCEPT !.visible = FALSE, !.res = "hidden"]
    ELSE [s EXCEPT !.visible = TRUE, !.res = "shown"]

\* toggle_visibility up to its processEvents() call: hiding releases the held
\* keys first.  The show branch ends with processEvents() too; the window is
\* up by then and the events delivered there are the ones the outer loop
\* delivers next, so that branch is taken as returning at once.
toggle_visibility(s, fails) ==
    IF s.visible
    THEN [processEvents(release_all_keys(s, fails), "hide_events")
             EXCEPT !.visible = FALSE, !.res = "hidden"]
    ELSE [s EXCEPT !.visible = TRUE, !.res = "shown"]

\* processEvents() has delivered what was pending: the hide branch of
\* toggle_visibility returns.
toggle_visibility_return(s) ==
    [s EXCEPT !.frames = SubSeq(@, 1, Len(@) - 1), !.res = "hidden"]

\* closeEvent: stop_macro(), release_all_keys(), the overlay is closed and the
\* event accepted; the last window is gone, so app.exec_() returns.
closeEvent(s, fails) ==
    [release_all_keys(stop_macro(s, fails), {})
        EXCEPT !.visible = FALSE, !.process = "closed", !.res = "closed"]

\* Variant: reloading the catalog ends the session.
reload_macros_stops(s) == stop_macro(s, {})

\* reload_macros rebuilds the macro tree and touches no scheduler field.
reload_macros(s) == s

\* Variant: a step of an unknown kind is sent.
KeyOp_unknown_sends(s, act, key) ==
    CASE act = "press" ->
             [s EXCEPT !.inj = Append(@, Call("press", key, TRUE, FALSE)),
                       !.held_keys = @ \cup {key}]
      [] act = "release" ->
             [s EXCEPT !.inj = Append(@, Call("release", key, TRUE, FALSE)),
                       !.held_keys = @ \ {key}]
      [] OTHER ->
             [s EXCEPT !.inj = Append(@, Call("send", key, TRUE, FALSE))]

\* Variant: send is made of two injector calls, a press and a release.
KeyOp_send_two_calls(s, act, key) ==
    CASE act = "press" ->
             [s EXCEPT !.inj = Append(@, Call("press", key, TRUE, FALSE)),
                       !.held_keys = @ \cup {key}]
      [] act = "release" ->
             [s EXCEPT !.inj = Append(@, Call("release", key, TRUE, FALSE)),
                       !.held_keys = @ \ {key}]
      [] act = "send" ->
             [s EXCEPT !.inj = Append(Append(@, Call("press", key, TRUE, FALSE)),
                                      Call("release", key, TRUE, FALSE))]
      [] OTHER -> s

\* Variant: a sent key is recorded as held, like a pressed one.
KeyOp_send_holds(s, act, key) ==
    CASE act = "press" ->
             [s EXCEPT !.inj = Append(@, Call("press", key, TRUE, FALSE)),
                       !.held_keys = @ \cup {key}]
      [] act = "release" ->
             [s EXCEPT !.inj = Append(@, Call("release", key, TRUE, FALSE)),
                       !.held_keys = @ \ {key}]
      [] act = "send" ->
             [s EXCEPT !.inj = Append(@, Call("send", key, TRUE, FALSE)),
                       !.held_keys = @ \cup {key}]
      [] OTHER -> s

\* Lines 1025-1033: the keyboard call of a step and its effect on held_keys.
KeyOp(s, act, key) ==
    CASE act = "press" ->
             [s EXCEPT !.inj = Append(@, Call("press", key, TRUE, FALSE)),
                       !.held_keys = @ \cup {key}]
      [] act = "release" ->
             [s EXCEPT !.inj = Append(@, Call("release", key, TRUE, FALSE)),
                       !.held_keys = @ \ {key}]
      [] act = "send" ->
             [s EXCEPT !.inj = Append(@, Call("send", key, TRUE, FALSE))]
      [] OTHER -> s

\* Variant: the step that reaches the end of the list with the loop toggle off
\* ends the session itself.
AdvanceAndArm_finishes(s, delay) ==
    IF s.macro_index + 1 >= Len(s.macro_actions) /\ ~s.loop_checked
    THEN stop_macro([s EXCEPT !.macro_index = @ + 1], {})
    ELSE timer_start([s EXCEPT !.macro_index = @ + 1], delay)

\* Variant: the step that reaches the end of the list with the loop toggle on
\* rewinds the cursor itself.
AdvanceAndArm_wraps(s, delay) ==
    IF s.macro_index + 1 >= Len(s.macro_actions) /\ s.loop_checked
    THEN timer_start([s EXCEPT !.macro_index = 0], delay)
    ELSE timer_start([s EXCEPT !.macro_index = @ + 1], delay)

\* Variant: the fire moves the cursor past the executed step and its successor.
AdvanceAndArm_two_steps(s, delay) ==
    timer_start([s EXCEPT !.macro_index = @ + 2], delay)

\* Lines 1036-1038: advance and re-arm with the executed step's delay;
\* int(delay) raises for a delay that is not finite, after the increment.
AdvanceAndArm(s, delay) ==
    IF delay = NotFinite
    THEN [s EXCEPT !.macro_index = @ + 1, !.res = "raised"]
    ELSE timer_start([s EXCEPT !.macro_index = @ + 1], delay)

\* Variant: the loop branch re-arms the timer without rewinding the cursor.
EndOfList_no_rewind(s, fails) ==
    IF s.macro_index >= Len(s.macro_actions)
    THEN IF s.loop_checked
         THEN Returned(start_macro_timer(s), "wrap")
         ELSE [stop_macro(s, fails) EXCEPT !.res = "finish"]
    ELSE s

\* Variant: the session ends without release_all_keys.
EndOfList_keeps_keys(s, fails) ==
    IF s.macro_index >= Len(s.macro_actions)
    THEN IF s.loop_checked
         THEN Returned(start_macro_timer([s EXCEPT !.macro_index = 0]), "wrap")
         ELSE [timer_stop([s EXCEPT !.macro_running = FALSE, !.macro_paused = FALSE])
                  EXCEPT !.macro_index = 0, !.macro_actions = <<>>,
                         !.res = "finish"]
    ELSE s

\* Variant: the loop wrap releases the held keys before the next pass.
EndOfList_releases_on_wrap(s, fails) ==
    IF s.macro_index >= Len(s.macro_actions)
    THEN IF s.loop_checked
         THEN Returned(start_macro_timer(
                           release_all_keys([s EXCEPT !.macro_index = 0], fails)),
                       "wrap")
         ELSE [stop_macro(s, fails) EXCEPT !.res = "finish"]
    ELSE s

\* Lines 1039-1045: end of the list.
EndOfList(s, fails) ==
    IF s.macro_index >= Len(s.macro_actions)
    THEN IF s.loop_checked
         THEN Returned(start_macro_timer([s EXCEPT !.macro_index = 0]), "wrap")
         ELSE [stop_macro(s, fails) EXCEPT !.res = "finish"]
    ELSE s

\* Variant: held_keys is updated before the keyboard call, so a call that
\* raises has already changed it.
RECURSIVE execute_macro_step_updates_first(_, _, _)
execute_macro_step_updates_first(s, injOk, fails) ==
    IF s.macro_running /\ s.macro_index < Len(s.macro_actions)
    THEN LET action == s.macro_actions[s.macro_index + 1]
             act == ActionOf(action)
             key == KeyOf(action)
             delay == DelayMs(action)
         IN  IF ~action.dict
             THEN [s EXCEPT !.res = "raised"]
             ELSE IF action.info
             THEN execute_macro_step_updates_first(
                      [s EXCEPT !.macro_index = @ + 1], injOk, fails)
             ELSE IF key = ""
             THEN [show_error(s, "empty_key", s.macro_index + 1, 0)
                      EXCEPT !.res = "warn"]
             ELSE IF ~injOk /\ act \in {"press", "release", "send"}
             THEN [show_error([s EXCEPT !.inj = Append(@, Call(act, key, FALSE, FALSE)),
                                        !.held_keys = KeyOp(s, act, key).held_keys],
                              "step_error", 0, delay)
                      EXCEPT !.res = "warn"]
             ELSE Returned(AdvanceAndArm(KeyOp(s, act, key), delay), "step")
    ELSE EndOfList(s, fails)

\* Variant: an element with an "info" key is executed like any other step.
execute_macro_step_runs_info(s, injOk, fails) ==
    IF s.macro_running /\ s.macro_index < Len(s.macro_actions)
    THEN LET action == s.macro_actions[s.macro_index + 1]
             act == ActionOf(action)
             key == KeyOf(action)
             delay == DelayMs(action)
         IN  IF ~action.dict
             THEN [s EXCEPT !.res = "raised"]
             ELSE IF key = ""
             THEN [show_error(s, "empty_key", s.macro_index + 1, 0)
                      EXCEPT !.res = "warn"]
             ELSE IF ~injOk /\ act \in {"press", "release", "send"}
             THEN [show_error([s EXCEPT !.inj = Append(@, Call(act, key, FALSE, FALSE))],
                              "step_error", 0, delay)
                      EXCEPT !.res = "warn"]
             ELSE Returned(AdvanceAndArm(KeyOp(s, act, key), delay), "step")
    ELSE EndOfList(s, fails)

\* execute_macro_step from the top of its while loop.  `injOk`: the keyboard
\* call of the step succeeds.
RECURSIVE execute_macro_step(_, _, _)
execute_macro_step(s, injOk, fails) ==
    IF s.macro_running /\ s.macro_index < Len(s.macro_actions)
    THEN LET action == s.macro_actions[s.macro_index + 1]
             act == ActionOf(action)
             key == KeyOf(action)
             delay == DelayMs(action)
         IN  IF ~action.dict
             THEN [s EXCEPT !.res = "raised"]
             ELSE IF action.info
             THEN execute_macro_step([s EXCEPT !.macro_index = @ + 1], injOk, fails)
             ELSE IF key = ""
             THEN [show_error(s, "empty_key", s.macro_index + 1, 0)
                      EXCEPT !.res = "warn"]
             ELSE IF ~injOk /\ act \in {"press", "release", "send"}
             THEN [show_error([s EXCEPT !.inj = Append(@, Call(act, key, FALSE, FALSE))],
                              "step_error", 0, delay)
                      EXCEPT !.res = "warn"]
             ELSE Returned(AdvanceAndArm(KeyOp(s, act, key), delay), "step")
    ELSE EndOfList(s, fails)

\* The rest of the handler that the closed dialog had suspended.
resume(s, injOk, fails) ==
    LET f == s.frames[Len(s.frames)]
        s1 == [s EXCEPT !.frames = SubSeq(@, 1, Len(@) - 1)]
    IN  CASE f.kind = "empty_key" ->
                 execute_macro_step([s1 EXCEPT !.macro_index = @ + 1], injOk, fails)
          [] f.kind = "step_error" ->
                 Returned(AdvanceAndArm(s1, f.delay), "step")
          [] OTHER -> s1

\* An exception that leaves a slot: PyQt5 prints it and the event loop goes
\* on, or (5.5 and later, no excepthook installed) calls qFatal() and the
\* process aborts.
slot_return(s, abort) ==
    IF s.res = "raised" /\ abort THEN [s EXCEPT !.process = "aborted"] ELSE s

\* The two outcomes exist only for a handler that raised.
AbortChoices(s) == IF s.res = "raised" THEN BOOLEAN ELSE {FALSE}

(***************************************************************************)
(* Events of the Qt event loop.                                            *)
(***************************************************************************)
Keys == {"a", "b"}

\* The frames that are warning boxes.
DialogKinds == {"empty_key", "step_error", "load_error"}

\* The handler on top of the stack of suspended handlers.
TopFrame == frames[Len(frames)]
HotkeyOps == {"play", "pause", "stop", "reload", "hide"}
ButtonOps == {"play", "pause", "stop", "reload"}

\* The slot a hotkey or a button is connected to (hotkey_map, clicked.connect).
Slot(op, s, sel, fails) ==
    CASE op = "play" -> play_macro(s, sel, fails)
      [] op = "pause" -> pause_macro(s, fails)
      [] op = "stop" -> stop_macro(s, fails)
      [] op = "reload" -> reload_macros(s)
      [] op = "hide" -> toggle_visibility(s, fails)

\* The keyboard.release calls that can fail in the slot of `op`: the slot
\* calls release_all_keys only on these paths (play_macro through the
\* stop_macro of its load branch).
FailSets(op) ==
    IF \/ op = "stop"
       \/ op = "pause" /\ macro_running
       \/ op = "hide" /\ visible
       \/ op = "play" /\ ~macro_running
    THEN SUBSET held_keys
    ELSE {{}}

\* What can be selected when a session is running: nothing, a macro file, a
\* file that does not decode to a list.  Which of the macro files it is
\* matters to the load branch of play_macro only.
RunningSelections == {NoSelection, File(MacroB), NotAList}

\* Only play_macro reads the selection.
SelectionsFor(op) ==
    IF op # "play" THEN {NoSelection}
    ELSE IF macro_running THEN RunningSelections
    ELSE Selections

\* What the selected item decodes to, as play_macro tells the cases apart.
InputKind(sel) == IF sel.t = "list" /\ sel.items = <<>> THEN "empty" ELSE sel.t

NoInput == "-"

NoRun == [actions |-> <<>>, fires |-> 0]

\* The state a handler leaves behind when it returns or opens a dialog.
Commit(s, op, arg) ==
    /\ process = "up"
    /\ Len(s.frames) <= MaxDepth
    /\ macro_actions' = s.macro_actions
    /\ macro_index' = s.macro_index
    /\ macro_running' = s.macro_running
    /\ macro_paused' = s.macro_paused
    /\ macro_loop' = s.macro_loop
    /\ held_keys' = s.held_keys
    /\ timer_active' = s.timer_active
    /\ timer_interval' = s.timer_interval
    /\ loop_checked' = s.loop_checked
    /\ visible' = s.visible
    /\ process' = s.process
    /\ frames' = s.frames
    /\ marshal' = s.marshal
    /\ inj' = s.inj
    /\ last' = [op |-> op,
                arg |-> IF s.res \in {"start", "reject"} THEN arg ELSE NoInput,
                res |-> s.res,
                rep |-> \/ op = "pause" /\ last.op = "pause"
                        \/ op = "stop" /\ last.op = "play" /\ last.res = "start"]
    /\ stopped' = CASE op = "stop" -> TRUE
                     [] op = "play" /\ s.res = "start" -> FALSE
                     [] OTHER -> stopped
    /\ run' = CASE op = "play" /\ s.res = "start" /\ s.frames = <<>> ->
                     [actions |-> s.macro_actions, fires |-> 0]
                [] op = "fire" /\ s.res \in {"step", "finish"}
                      /\ s.frames = <<>> /\ run # NoRun ->
                     [run EXCEPT !.fires = @ + 1]
                [] OTHER -> NoRun

Init ==
    /\ macro_actions = <<>>
    /\ macro_index = 0
    /\ macro_running = FALSE
    /\ macro_paused = FALSE
    /\ macro_loop = FALSE
    /\ held_keys = {}
    /\ timer_active = FALSE
    /\ timer_interval = 0
    /\ loop_checked = FALSE
    /\ visible = TRUE
    /\ process = "up"
    /\ frames = <<>>
    /\ inj = <<>>
    /\ last = [op |-> "init", arg |-> NoInput, res |-> "done", rep |-> FALSE]
    /\ stopped = FALSE
    /\ run = NoRun
    /\ marshal = [queue |-> <<>>, issued |-> 0, applied |-> 0]

\* The event loop (outer or a dialog's) delivers a posted hotkey call.
Hotkey ==
    \E op \in HotkeyOps :
    \E sel \in SelectionsFor(op), fails \in FailSets(op) :
        LET s == Slot(op, Cur, sel, fails)
        IN  \E abort \in AbortChoices(s) :
                Commit(slot_return(s, abort), op,
                       IF op = "play" THEN InputKind(sel) ELSE NoInput)

\* A button of the main window; a modal dialog blocks the window's input, and
\* processEvents() is over before the user can click.
Click ==
    /\ frames = <<>>
    /\ visible
    /\ \E op \in ButtonOps :
       \E sel \in SelectionsFor(op), fails \in FailSets(op) :
           LET s == Slot(op, Cur, sel, fails)
           IN  \E abort \in AbortChoices(s) :
                   Commit(slot_return(s, abort), op,
                          IF op = "play" THEN InputKind(sel) ELSE NoInput)

\* The user closes the main window.
CloseWindow ==
    /\ frames = <<>>
    /\ visible
    /\ \E fails \in SUBSET held_keys :
           Commit(closeEvent(Cur, fails), "closeEvent", NoInput)

\* LoopToggleWidget.mouseReleaseEvent
ToggleLoop ==
    /\ frames = <<>>
    /\ visible
    /\ Commit([Cur EXCEPT !.loop_checked = ~@], "toggle_loop", NoInput)

\* macro_timer.timeout: the timer is not single-shot, so it keeps firing with
\* its interval until stop() and also inside a dialog's event loop.
TimerFire ==
    /\ timer_active
    /\ \E injOk \in BOOLEAN, fails \in SUBSET held_keys :
           LET s == execute_macro_step(Cur, injOk, fails)
           IN  \E abort \in AbortChoices(s) :
                   Commit(slot_return(s, abort), "fire", NoInput)

\* The user closes the topmost warning box; its handler runs on.
DialogClose ==
    /\ frames # <<>>
    /\ TopFrame.kind \in DialogKinds
    /\ \E injOk \in BOOLEAN, fails \in SUBSET held_keys :
           LET s == resume(Cur, injOk, fails)
           IN  \E abort \in AbortChoices(s) :
                   Commit(slot_return(s, abort), "close", NoInput)

\* The innermost event loop is that of processEvents() and nothing is pending
\* any more.
ProcessEventsReturn ==
    /\ frames # <<>>
    /\ TopFrame.kind \notin DialogKinds
    /\ Commit(toggle_visibility_return(Cur), "return", NoInput)

Next ==
    \/ Hotkey
    \/ Click
    \/ CloseWindow
    \/ ToggleLoop
    \/ TimerFire
    \/ DialogClose
    \/ ProcessEventsReturn

Spec == Init /\ [][Next]_vars

(***************************************************************************)
(* The same program with the queue of posted hotkey calls made explicit:   *)
(* the keyboard thread posts a call, the main thread delivers the calls in *)
(* the order posted; a button click is connected directly and runs when    *)
(* the event loop delivers the mouse event.  Requests are numbered in the  *)
(* order in which they are made.                                           *)
(***************************************************************************)
QueueOps == {"play", "pause", "stop"}
QueueSelection == File(MacroB)

\* hotkey_map lambda on the keyboard thread: QMetaObject.invokeMethod(...,
\* QueuedConnection) appends the call to the main thread's event queue.
PostHotkey ==
    /\ process = "up"
    /\ marshal.issued < MaxRequests
    /\ \E op \in QueueOps :
           marshal' = [marshal EXCEPT
                          !.queue = Append(@, [op |-> op, n |-> marshal.issued + 1]),
                          !.issued = @ + 1]
    /\ UNCHANGED <<macro_actions, macro_index, macro_running, macro_paused,
                   macro_loop, held_keys, timer_active, timer_interval,
                   loop_checked, visible, process, frames, inj, last, stopped,
                   run>>

\* The event loop (outer or nested) delivers the oldest posted call.
DeliverHotkey ==
    /\ marshal.queue # <<>>
    /\ LET r == Head(marshal.queue)
           s == [Cur EXCEPT !.marshal = [queue |-> Tail(marshal.queue),
                                         issued |-> marshal.issued,
                                         applied |-> r.n]]
       IN  \E fails \in SUBSET held_keys :
               Commit(Slot(r.op, s, QueueSelection, fails), r.op,
                      IF r.op = "play" THEN InputKind(QueueSelection) ELSE NoInput)

\* clicked.connect(self.play_macro) etc.: the slot runs inside the delivery of
\* the mouse event, whatever is still waiting in the queue of posted calls.
ClickButton ==
    /\ frames = <<>>
    /\ visible
    /\ marshal.issued < MaxRequests
    /\ LET s == [Cur EXCEPT !.marshal = [queue |-> marshal.queue,
                                         issued |-> marshal.issued + 1,
                                         applied |-> marshal.issued + 1]]
       IN  \E op \in QueueOps, fails \in SUBSET held_keys :
               Commit(Slot(op, s, QueueSelection, fails), op,
                      IF op = "play" THEN InputKind(QueueSelection) ELSE NoInput)

NextQ ==
    \/ PostHotkey
    \/ DeliverHotkey
    \/ ClickButton
    \/ TimerFire
    \/ DialogClose

SpecQ == Init /\ [][NextQ]_vars

(***************************************************************************)
(* One undisturbed session: the only requests are play requests (the loop  *)
(* toggle is never touched, no pause, no stop, the window stays open), the *)
(* timer fires whenever it is due and every warning box is eventually      *)
(* dismissed.                                                              *)
(***************************************************************************)
PlayRequest ==
    \E sel \in Catalog, fails \in SUBSET held_keys :
        Commit(Slot("play", Cur, sel, fails), "play", InputKind(sel))

NextFair ==
    \/ PlayRequest
    \/ TimerFire
    \/ DialogClose

SpecFair ==
    /\ Init
    /\ [][NextFair]_vars
    /\ WF_vars(TimerFire)
    /\ WF_vars(DialogClose)

(***************************************************************************)
(* Sessions over a macro file with a delay that float() accepts and int()  *)
(* refuses.                                                                *)
(***************************************************************************)
DelayCatalog == {File(MacroF)}

ControlDelay ==
    \E op \in QueueOps, sel \in DelayCatalog, fails \in SUBSET held_keys :
        LET s == Slot(op, Cur, sel, fails)
        IN  \E abort \in AbortChoices(s) :
                Commit(slot_return(s, abort), op,
                       IF op = "play" THEN InputKind(sel) ELSE NoInput)

NextDelay ==
    \/ ControlDelay
    \/ ToggleLoop
    \/ TimerFire
    \/ DialogClose

SpecDelay == Init /\ [][NextDelay]_vars

TypeOK ==
    /\ macro_index \in Nat
    /\ held_keys \subseteq Keys
    /\ Len(frames) <= MaxDepth
    /\ process \in {"up", "closed", "aborted"}

(***************************************************************************)
(* Properties.                                                             *)
(***************************************************************************)
Idle == ~macro_running
Playing == macro_running /\ ~macro_paused
Paused == macro_running /\ macro_paused

ControlOps == HotkeyOps \cup ButtonOps

\* The step calls (press, release, send) in a handler's keyboard calls.
KeyCalls(log) == {i \in DOMAIN log : ~log[i].emerg}

\* How often release_all_keys called keyboard.release(k).
EmergCount(log, k) ==
    Cardinality({i \in DOMAIN log :
                    log[i].emerg /\ log[i].op = "release" /\ log[i].key = k})

\* The handler that ran took a branch that calls release_all_keys.
ReleasePoint(l) ==
    \/ l.op = "pause" /\ l.res \in {"paused", "again"}
    \/ l.op = "stop"
    \/ l.op = "hide" /\ l.res = "hidden"
    \/ l.op = "play" /\ l.res \in {"start", "reject"}
    \/ l.op \in {"fire", "close"} /\ l.res = "finish"

\* A step of execute_macro_step is suspended in a warning dialog.
StepInFlight ==
    \E i \in DOMAIN frames : frames[i].kind \in {"empty_key", "step_error"}

\* C1: held_keys is empty in the state in which a pause_macro or stop_macro
\* call has just returned, whatever the state it was called in.
C1_HeldEmptyAfterPauseStop ==
    last.op \in {"pause", "stop"} => held_keys = {}

\* A pause of a playing session that had keys down released them.
C1_Witness ==
    /\ last.op = "pause" /\ last.res = "paused"
    /\ inj # <<>>
    /\ held_keys = {}

\* C2: a handler that calls release_all_keys calls keyboard.release exactly
\* once for each key held at the call and for no other key, and leaves
\* held_keys empty, whichever of the release calls fail.
C2_EmergencyRelease ==
    [][ReleasePoint(last') =>
          /\ held_keys' = {}
          /\ \A k \in Keys :
                 EmergCount(inj', k) = IF k \in held_keys THEN 1 ELSE 0]_vars

\* Two keys were held, the first release failed, the second was still tried.
C2_Witness ==
    /\ Len(inj) = 2
    /\ inj[1].emerg /\ ~inj[1].ok
    /\ inj[2].emerg
    /\ held_keys = {}

\* C3: once a stop request was handled and until play_macro starts a
\* session, no timer is armed, macro_index does not move and no step call
\* reaches the keyboard.
C3_NoStepAfterStop ==
    [][stopped' =>
          /\ ~timer_active'
          /\ stopped => (macro_index' = macro_index /\ KeyCalls(inj') = {})]_vars

\* C4: a control operation (play, pause, stop, reload, hide) never runs while
\* a step of execute_macro_step is in flight.
C4_ControlNeverMidStep ==
    last.op \in ControlOps => ~StepInFlight

\* C5: while the session is paused no timer is armed, and macro_index,
\* held_keys and the step calls made do not change.
C5_NoStepWhilePaused ==
    [][Paused' =>
          /\ ~timer_active'
          /\ Paused => /\ macro_index' = macro_index
                       /\ held_keys' = held_keys
                       /\ KeyCalls(inj') = {}]_vars

\* C6: play_macro on a playing (not paused) session changes nothing: state,
\* index, action list, loop flag, held keys and timer stay, nothing is
\* reported and no keyboard call is made, whatever is selected.
C6_PlayWhilePlayingNoop ==
    [][(last'.op = "play" /\ Playing) =>
          /\ UNCHANGED <<sched, macro_loop, held_keys, timer_active,
                         timer_interval, frames>>
          /\ inj' = <<>>]_vars

\* play_macro ran on a playing session that was past step 0 with a key down.
C6_Witness ==
    /\ last.op = "play" /\ last.res = "noop"
    /\ Playing
    /\ macro_index > 0
    /\ held_keys # {}
    /\ timer_active

\* C7: a pause_macro right after a pause_macro changes nothing: state, index,
\* timer and held keys are those the first call left, nothing is reported and
\* no further release call is made.
C7_PauseIdempotent ==
    [][(last.op = "pause" /\ last'.op = "pause") =>
          /\ UNCHANGED <<sched, held_keys, timer_active, timer_interval, frames>>
          /\ inj' = <<>>]_vars

\* A second pause_macro in a row on a paused session.
C7_Witness ==
    /\ last.op = "pause" /\ last.rep
    /\ Paused

\* C8: 0 <= macro_index <= len(macro_actions) in every reachable state.
C8_IndexInRange ==
    macro_index >= 0 /\ macro_index <= Len(macro_actions)

\* C9: from a session state with macro_index = len(macro_actions) the
\* scheduler state changes only to Playing with index 0 or to Idle.
C9_EndOfListNextState ==
    [][(macro_running /\ macro_index = Len(macro_actions)) =>
          \/ macro_running' /\ ~macro_paused' /\ macro_index' = 0
          \/ ~macro_running']_sched

\* C9 as amended: a timer fire that finds a playing session with
\* macro_index >= len(macro_actions) leaves it Playing with index 0 and the
\* timer armed when the loop toggle is on, and Idle when it is off.
C9_FireAtEndOfList ==
    [][(last'.op = "fire" /\ Playing /\ macro_index >= Len(macro_actions)) =>
          IF loop_checked
          THEN macro_running' /\ ~macro_paused' /\ macro_index' = 0 /\ timer_active'
          ELSE ~macro_running']_vars

\* A fire wrapped a playing session around.
C9_Witness ==
    /\ last.op = "fire" /\ last.res = "wrap"
    /\ Playing
    /\ macro_index = 0
    /\ frames = <<>>

\* C10: play_macro called while Idle on a file that fails to load, is not a
\* list or is an empty list reports an error and leaves the scheduler Idle
\* with no actions, index 0 and no timer, without a step call; closing the
\* report changes nothing.
C10_RejectedPlay ==
    [][/\ (last'.op = "play" /\ Idle
             /\ last'.arg \in {"ioerror", "notalist", "empty"}) =>
              /\ ~macro_running' /\ ~macro_paused'
              /\ macro_actions' = <<>>
              /\ macro_index' = 0
              /\ ~timer_active'
              /\ frames' = Append(frames, Frame("load_error", 0, 0))
              /\ KeyCalls(inj') = {}
       /\ (last'.op = "close" /\ frames[Len(frames)].kind = "load_error") =>
              /\ UNCHANGED <<sched, held_keys, timer_active, timer_interval>>
              /\ inj' = <<>>]_vars

\* An empty list was rejected and its report is open.
C10_Witness ==
    /\ last.op = "play" /\ last.res = "reject" /\ last.arg = "empty"
    /\ Idle
    /\ frames # <<>>

\* C11: no exception leaves execute_macro_step, whatever the elements of the
\* accepted list are: no timer fire, and no continuation of one after a
\* closed warning box, ends with an uncaught exception.
C11_NothingEscapes ==
    last.op \in {"fire", "close"} => last.res # "raised"

\* C12: a step whose keyboard call failed is reported, and when its handler
\* goes on after the report macro_index is one more, the timer is armed with
\* the step's delay and the session is still Playing.
C12_FailedStepAdvances ==
    [][(last'.op = "close" /\ TopFrame.kind = "step_error") =>
          /\ macro_index' = macro_index + 1
          /\ timer_active' /\ timer_interval' = TopFrame.delay
          /\ macro_running' /\ ~macro_paused']_vars

\* C13: a step with an empty key gets exactly one warning: the warnings open
\* at any time name pairwise different steps.
C13_OneWarningPerStep ==
    \A i, j \in DOMAIN frames :
        (i < j /\ frames[i].kind = "empty_key" /\ frames[j].kind = "empty_key")
            => frames[i].step # frames[j].step

\* A fire opened the warning of an empty-key step in this step of the run.
EmptyKeyWarned ==
    /\ last'.op = "fire" /\ last'.res = "warn"
    /\ Len(frames') = Len(frames) + 1
    /\ frames'[Len(frames')].kind = "empty_key"

\* The warning of an empty-key step is closed in this step of the run.
EmptyKeyClosed == last'.op = "close" /\ TopFrame.kind = "empty_key"

KeyStepsOnly(list) ==
    \A i \in DOMAIN list :
        /\ list[i].dict /\ ~list[i].info
        /\ KeyOf(list[i]) # ""
        /\ ActionOf(list[i]) \in {"press", "release", "send"}

\* A session over key steps only, loop toggle off, in which nothing but the
\* timer has run since play_macro started it.
UndisturbedRun ==
    /\ run # NoRun
    /\ KeyStepsOnly(run.actions)
    /\ ~loop_checked

\* C15: such a session over n steps is Idle with held_keys empty after
\* exactly n timer fires.
C15_IdleAfterNFires ==
    (UndisturbedRun /\ run.fires = Len(run.actions)) =>
        (Idle /\ held_keys = {})

\* C15 as amended: after k <= n fires the session is Playing at index k with
\* the timer armed; fire n + 1 finds the end of the list and leaves the
\* scheduler Idle with held_keys empty and no timer.
C15_IdleAfterNPlusOneFires ==
    UndisturbedRun =>
        /\ run.fires <= Len(run.actions) + 1
        /\ run.fires <= Len(run.actions) =>
               /\ Playing /\ timer_active
               /\ macro_actions = run.actions
               /\ macro_index = run.fires
        /\ run.fires = Len(run.actions) + 1 =>
               (Idle /\ held_keys = {} /\ ~timer_active)

\* [Press a, Release a] has finished with its third fire.
C15_Witness ==
    /\ UndisturbedRun
    /\ run.actions = MacroA
    /\ run.fires = 3
    /\ Idle

\* A playing session over a one-step list [Send k] with the loop toggle on.
LoopingSend ==
    /\ Playing /\ loop_checked
    /\ Len(macro_actions) = 1
    /\ KeyStepsOnly(macro_actions)
    /\ ActionOf(macro_actions[1]) = "send"

\* C16: in such a session, started with the toggle on, macro_index is 0 after
\* every timer fire.
C16_IndexZeroAfterFire ==
    (last.op = "fire" /\ LoopingSend /\ macro_loop /\ frames = <<>>)
        => macro_index = 0

\* C16 as amended: the fire that sends the key leaves macro_index = 1, and the
\* next fire makes no key call and rewinds to 0; a fire whose send fails
\* leaves the index to the closing of its report.
C16_IndexAlternates ==
    [][(last'.op = "fire" /\ LoopingSend) =>
          IF macro_index = 0
          THEN /\ last'.res \in {"step", "warn"}
               /\ last'.res = "step" =>
                      (macro_index' = 1 /\ Cardinality(KeyCalls(inj')) = 1)
               /\ last'.res = "warn" => macro_index' = 0
          ELSE /\ last'.res = "wrap"
               /\ macro_index' = 0 /\ inj' = <<>>
               /\ macro_running' /\ ~macro_paused' /\ timer_active']_vars

\* The one-step list has wrapped around.
C16_Witness ==
    /\ last.op = "fire" /\ last.res = "wrap"
    /\ LoopingSend
    /\ macro_actions = MacroB
    /\ macro_index = 0
    /\ timer_active

DelayAtCursor ==
    IF macro_index < Len(macro_actions)
    THEN DelayMs(macro_actions[macro_index + 1])
    ELSE DefaultDelayMs

C19_LoopFlagSnapshot ==
    /\ last.res = "wrap" => macro_loop
    /\ last.res = "finish" => ~macro_loop

\* C20: held_keys is empty when the hide branch of toggle_visibility has
\* returned and when closeEvent has returned; after closeEvent the scheduler
\* is Idle with no list and no timer.
C20_HeldEmptyAfterHideAndClose ==
    /\ (last.op = "return" /\ last.res = "hidden") => held_keys = {}
    /\ last.op = "closeEvent" =>
           /\ held_keys = {}
           /\ Idle /\ ~timer_active
           /\ macro_index = 0 /\ macro_actions = <<>>

\* C21: reload_macros leaves the session as it is in every state: scheduler
\* fields, loop flag, held_keys, timer and open reports are unchanged and no
\* keyboard call is made; play_macro right after a reload of a paused session
\* resumes it at the same index of the same list.
C21_ReloadLeavesSession ==
    [][/\ last'.op = "reload" =>
              /\ UNCHANGED <<sched, macro_loop, loop_checked, held_keys,
                             timer_active, timer_interval, frames>>
              /\ inj' = <<>>
       /\ (last.op = "reload" /\ Paused /\ last'.op = "play") =>
              /\ last'.res = "resume"
              /\ macro_running' /\ ~macro_paused' /\ timer_active'
              /\ macro_index' = macro_index
              /\ macro_actions' = macro_actions]_vars

\* A reload ran on a playing session past step 0 with a key down.
C21_Witness ==
    /\ last.op = "reload"
    /\ Playing /\ timer_active
    /\ macro_index > 0
    /\ held_keys # {}

\* C22: pause_macro and stop_macro called while Idle leave the scheduler Idle
\* with index 0, no list and no timer, leave held_keys as it was and report
\* nothing.
C22_IdleControlNoop ==
    [][(last'.op \in {"pause", "stop"} /\ Idle) =>
          /\ ~macro_running' /\ ~macro_paused'
          /\ macro_index' = 0 /\ macro_actions' = <<>>
          /\ ~timer_active'
          /\ held_keys' = held_keys
          /\ frames' = frames]_vars

\* C23: control requests are applied in the order in which they were made,
\* whether they come from a hotkey or from a button: no request that is still
\* waiting is older than the request applied last.
C23_AppliedInOrder ==
    \A i \in DOMAIN marshal.queue : marshal.queue[i].n > marshal.applied

\* C24: whenever the scheduler is Idle the action list is empty, the step
\* index is 0 and no timer is armed.
C24_IdleIsReset ==
    Idle => macro_actions = <<>> /\ macro_index = 0 /\ ~timer_active

\* C25: with the loop toggle off and neither pause nor stop issued, a session
\* over any accepted list eventually ends: the scheduler is Idle again and the
\* session (list and index) is discarded.
C25_NaturalCompletion ==
    Playing ~> (Idle /\ macro_actions = <<>> /\ macro_index = 0)

\* The step the while loop of execute_macro_step stops at when it starts at
\* index i: the first element at or after i that has no "info" key (0-based;
\* Len(list) when only Info steps are left).
RECURSIVE NextStep(_, _)
NextStep(list, i) ==
    IF i < Len(list) /\ list[i + 1].info THEN NextStep(list, i + 1) ELSE i

C27_NoFireInsideStep ==
    [][last'.op = "fire" =>
          \A i \in DOMAIN frames : frames[i].kind \notin {"empty_key", "step_error"}]_vars

SendOnly(list) ==
    /\ list # <<>>
    /\ \A i \in DOMAIN list :
          list[i].dict /\ ~list[i].info /\ ActionOf(list[i]) = "send"

\* C28: a successfully executed step changes HeldKeySet by its kind: press(k)
\* is injected and k added; release(k) is injected and k removed (held or
\* not); pressAndRelease(k) is injected and the set left alone.  The call made
\* is the one the step at the cursor names, and a session made only of Send
\* steps has an empty HeldKeySet throughout.
C28_HeldByKind ==
    [][/\ \A i \in KeyCalls(inj') :
             inj'[i].ok =>
                 CASE inj'[i].op = "press" -> held_keys' = held_keys \cup {inj'[i].key}
                   [] inj'[i].op = "release" -> held_keys' = held_keys \ {inj'[i].key}
                   [] OTHER -> inj'[i].op = "send" /\ held_keys' = held_keys
       /\ (last'.op = "fire" /\ last'.res = "step") =>
             LET a == macro_actions[NextStep(macro_actions, macro_index) + 1]
             IN  IF ActionOf(a) \in {"press", "release", "send"}
                 THEN inj' = <<Call(ActionOf(a), KeyOf(a), TRUE, FALSE)>>
                 ELSE inj' = <<>> /\ held_keys' = held_keys
       /\ (macro_running' /\ SendOnly(macro_actions')) => held_keys' = {}]_vars

\* The first step of [Press A, ...] was executed: press("a") injected, "a" held.
C28_Witness ==
    /\ last.op = "fire" /\ last.res = "step"
    /\ macro_actions = MacroC /\ macro_index = 1
    /\ inj = <<Call("press", "a", TRUE, FALSE)>>
    /\ held_keys = {"a"}

\* C29: an Info step at the cursor is skipped structurally, whatever else it
\* carries: the fire moves past it (index at least one higher), the only
\* injector call of the fire is that of the first non-Info step after it, the
\* only warning the fire may open is for that later step, and with no
\* injector call made HeldKeySet is what it was.
C29_InfoSkipped ==
    [][(/\ last'.op = "fire"
        /\ macro_running /\ macro_index < Len(macro_actions)
        /\ macro_actions[macro_index + 1].info) =>
           LET j == NextStep(macro_actions, macro_index)
           IN  /\ macro_index' >= macro_index + 1
               /\ \A i \in DOMAIN inj' :
                     /\ ~inj'[i].emerg
                     /\ j < Len(macro_actions)
                     /\ inj'[i].op = ActionOf(macro_actions[j + 1])
                     /\ inj'[i].key = KeyOf(macro_actions[j + 1])
               /\ \/ frames' = frames
                  \/ /\ Len(frames') = Len(frames) + 1
                     /\ j < Len(macro_actions)
                     /\ \/ frames'[Len(frames')].kind = "step_error"
                        \/ /\ frames'[Len(frames')].kind = "empty_key"
                           /\ frames'[Len(frames')].step = j + 1
               /\ inj' = <<>> => held_keys' = held_keys]_vars

\* The first fire over [Info (press a, 50 ms), tap b, ...]: no injector call,
\* no warning, nothing held, the cursor past the Info step and the tap step.
C29_Witness ==
    /\ last.op = "fire" /\ last.res = "step"
    /\ run.actions = MacroD /\ run.fires = 1
    /\ MacroD[1].info /\ KeyOf(MacroD[1]) = "a"
    /\ inj = <<>> /\ frames = <<>> /\ held_keys = {}
    /\ macro_index = 2

\* C30: after a fire has executed the key step at index i, the timer is armed
\* with step i's own delay, and with 100 ms when that delay is missing or is
\* no number of milliseconds.
C30_ArmedWithOwnDelay ==
    [][(/\ last'.op = "fire"
        /\ \E i \in KeyCalls(inj') : inj'[i].ok) =>
           LET a == macro_actions[NextStep(macro_actions, macro_index) + 1]
           IN  /\ timer_active'
               /\ timer_interval' = IF a.delay.t = "num" THEN a.delay.ms
                                    ELSE DefaultDelayMs]_vars

\* C31: HeldKeySet changes only through a press or release step whose
\* injector call succeeded or through an emergency release (pause, stop,
\* hide, a play that loads, the end of a non-looping list, shutdown); a play
\* that resumes, reload, the loop toggle and the loop wrap leave it as it was,
\* so keys held at the end of a pass are still held in the next pass.
C31_HeldMutators ==
    [][/\ held_keys' # held_keys =>
             \/ \E i \in KeyCalls(inj') :
                   inj'[i].ok /\ inj'[i].op \in {"press", "release"}
             \/ ReleasePoint(last')
             \/ last'.op = "closeEvent"
       /\ (\/ last'.op \in {"reload", "toggle_loop"}
           \/ last'.op = "play" /\ last'.res = "resume"
           \/ last'.res = "wrap") => held_keys' = held_keys]_vars

\* The end of a looping pass was reached with a key still held.
C31_Witness ==
    /\ last.res = "wrap"
    /\ held_keys # {}
    /\ macro_index = 0 /\ Playing

\* C32: a timer is armed exactly when the scheduler is Playing.
C32_TimerIffPlaying ==
    timer_active <=> Playing

\* C33: HeldKeySet is empty whenever the scheduler is not Playing.
C33_HeldEmptyUnlessPlaying ==
    ~Playing => held_keys = {}

\* C34: a step whose injector call fails does not update HeldKeySet: a failed
\* press(k) does not add k and a failed release(k) leaves k in the set; every
\* key that is in the set is released by the next emergency release.
C34_FailedCallKeepsHeld ==
    [][/\ (/\ last'.op \in {"fire", "close"}
           /\ \E i \in KeyCalls(inj') : ~inj'[i].ok) => held_keys' = held_keys
       /\ (ReleasePoint(last') \/ last'.op = "closeEvent") =>
             \A k \in held_keys : EmergCount(inj', k) = 1]_vars

\* release("a") has just failed in a step, and "a" is still recorded as held.
C34_Witness ==
    /\ last.op = "fire" /\ last.res = "warn"
    /\ inj = <<Call("release", "a", FALSE, FALSE)>>
    /\ held_keys = {"a"}

\* C35: one run of the timer handler (the fire, and its continuation once a
\* warning is dismissed) makes at most one injector key call, whatever it
\* skips; it makes emergency release calls only when it ends a non-looping
\* session, and then makes no key call.
C35_OneKeyCallPerFire ==
    last.op \in {"fire", "close"} =>
        /\ Cardinality(KeyCalls(inj)) <= 1
        /\ (\E i \in DOMAIN inj : inj[i].emerg) =>
               /\ last.res = "finish"
               /\ ~loop_checked
               /\ KeyCalls(inj) = {}

\* The handler skipped the empty-key step of [Press A, press " ", press b] and
\* then made exactly one call, press("b").
C35_Witness ==
    /\ last.op = "close" /\ last.res = "step"
    /\ macro_actions = MacroC /\ macro_index = 3
    /\ inj = <<Call("press", "b", TRUE, FALSE)>>

\* C36: hiding the window while Playing releases the held keys and leaves the
\* session alone: state, index, action list and the pending timer are what
\* they were, when the keys have been released and again when the handler
\* returns; the session goes on and its press steps hold keys again while the
\* window is hidden.
C36_HideKeepsPlaying ==
    [][/\ (last'.op = "hide" /\ last'.res = "hidden" /\ Playing) =>
             /\ UNCHANGED <<sched, macro_loop, timer_active, timer_interval>>
             /\ timer_active
             /\ held_keys' = {}
             /\ \A k \in held_keys : EmergCount(inj', k) = 1
             /\ ~visible'
       /\ last'.op = "return" =>
             /\ UNCHANGED <<sched, macro_loop, timer_active, timer_interval,
                            held_keys, visible>>
             /\ inj' = <<>>]_vars

\* The window is hidden, the hide handler has returned, and a press step of
\* the session that was playing has put a key back.
C36_Witness ==
    /\ ~visible /\ frames = <<>>
    /\ Playing /\ timer_active
    /\ last.op = "fire" /\ last.res = "step"
    /\ \E i \in KeyCalls(inj) : inj[i].op = "press" /\ inj[i].key \in held_keys

\* C37: play_macro called while Paused does not read the selection: whatever
\* is selected (another macro, nothing, a file that does not load) it resumes
\* the same list at the same index, loads nothing and reports nothing; the
\* action list is replaced by a non-empty one only by a play_macro from Idle,
\* which starts at index 0.
C37_PausedPlayIgnoresInput ==
    [][/\ (last'.op = "play" /\ Paused) =>
             /\ last'.res = "resume"
             /\ macro_actions' = macro_actions
             /\ macro_index' = macro_index
             /\ macro_running' /\ ~macro_paused'
             /\ frames' = frames
             /\ inj' = <<>>
       /\ (macro_actions' # macro_actions /\ macro_actions' # <<>>) =>
             /\ last'.op = "play" /\ last'.res = "start"
             /\ Idle
             /\ macro_index' = 0]_vars

\* A paused session was resumed past its first step by a play_macro that did
\* not read what was selected.
C37_Witness ==
    /\ last.op = "play" /\ last.res = "resume"
    /\ last.arg = NoInput
    /\ macro_index > 0 /\ macro_actions # <<>>
    /\ Playing /\ timer_active /\ frames = <<>>

\* C38: a step with a key whose kind is none of press, release, send makes no
\* injector call and no warning, leaves HeldKeySet alone, moves the index one
\* past itself and arms the timer with its delay; a step without a kind is
\* executed as a send of its key.
C38_UnknownKindStep ==
    [][(/\ last'.op = "fire"
        /\ macro_running /\ macro_index < Len(macro_actions)
        /\ NextStep(macro_actions, macro_index) < Len(macro_actions)) =>
           LET j == NextStep(macro_actions, macro_index)
               a == macro_actions[j + 1]
           IN  /\ (/\ a.dict /\ KeyOf(a) # ""
                   /\ ActionOf(a) \notin {"press", "release", "send"}) =>
                      /\ last'.res = "step"
                      /\ inj' = <<>>
                      /\ frames' = frames
                      /\ held_keys' = held_keys
                      /\ macro_index' = j + 1
                      /\ timer_active' /\ timer_interval' = DelayMs(a)
               /\ (a.dict /\ KeyOf(a) # "" /\ a.action = Absent) =>
                      /\ Len(inj') = 1
                      /\ inj'[1].op = "send" /\ inj'[1].key = KeyOf(a)
                      /\ ~inj'[1].emerg
                      /\ held_keys' = held_keys]_vars

\* Two fires over [Info, tap b (bad delay), (no kind) a, ...]: the tap step was
\* passed without a call, then the step without a kind sent "a".
C38_Witness ==
    /\ run.actions = MacroD /\ run.fires = 2
    /\ last.op = "fire" /\ last.res = "step"
    /\ macro_index = 3
    /\ inj = <<Call("send", "a", TRUE, FALSE)>>
    /\ timer_active /\ timer_interval = DefaultDelayMs

====
